---- MODULE Spec2Model ----
(***************************************************************************)
(* State-machine model of src/src/single_product_scraper.py:               *)
(*   - scrape_product_data / scrape_single_product (the variant loop),     *)
(*   - _save_product_data_to_files / _download_image / _fetch_image_bytes, *)
(*   - _run_ocr_from_file / _run_ocr_core / _get_ocr_client.               *)
(* The browser page, the image host and the OCR engine are the             *)
(* environment: what they answer is chosen nondeterministically from small *)
(* sets at the step where the code asks.                                   *)
(***************************************************************************)
EXTENDS Integers, Sequences, FiniteSets, TLC

(***************************************************************************)
(* Bounds of the model.                                                    *)
(***************************************************************************)
MaxStyles == 2
MaxSizes == 3

(***************************************************************************)
(* Program constants.                                                      *)
(***************************************************************************)
NumSkuSelectors == 5

None == "None"
NA == "N/A"

\* Python's None where the other values are records
NoneVal == [kind |-> "None"]
Unset == [kind |-> "unset"]

VARIABLES
    pc,               \* position in scrape_product_data / scrape_single_product
    args,             \* arguments of scrape_product_data
    page,             \* the product page (input)
    driver_created,   \* local of scrape_product_data
    driver_quit,      \* number of driver.quit() calls
    sku_container,    \* selector that located the container, 0 = not located
    container_clicks, \* click scripts executed before the held container handle was obtained
    style_elements,   \* number of style item handles found
    index,            \* loop index (1-based) of the style item in process
    style_data,       \* dict of the item in process
    style_is_available,
    initial_img_src,
    size_elements,    \* raw items last read from the size axis
    all_styles_data,  \* list of recorded style dicts
    stale,            \* handles obtained before the last click are stale
    click_attempts,   \* indices of the items for which the click script was executed, in order
    container_found,  \* the container was located by some selector in this call
    product_info,     \* static fields
    details_data,     \* product_details dict
    result_dict,      \* return value of scrape_single_product
    product_data,     \* return value of scrape_product_data
    saved,            \* _save_product_data_to_files was called
    debug_files,      \* diagnostic files written
    fs,               \* files on disk: absolute path -> byte length
    _ocr_client,      \* module-level engine singleton: "None" or "ready"
    engine,           \* how the OCR library behaves (input)
    cache,            \* the cache dict handed to _run_ocr_from_file
    ocr_ret,          \* return value of the last _run_ocr_from_file call
    last_path,        \* argument of the last _run_ocr_from_file call
    calls,            \* per image file: recognize calls, core runs, predict() and ocr() calls
    constructions,    \* number of PaddleOCR(...) constructor calls
    tmp_files,        \* NamedTemporaryFile(delete=False) files of recognize calls still on disk
    manifest,         \* local of _save_product_data_to_files: section -> entries
    seen_main,        \* local of _save_product_data_to_files
    seen_detail,      \* local of _save_product_data_to_files
    window,           \* the driver's current window: "open" or "closed"
    attempts,         \* _download_image calls made, in order, with their outcome
    fetch_log,        \* direct _fetch_image_bytes and _dom_fetch_image_new_tab calls, in order
    main_texts,       \* local of _save_product_data_to_files
    detail_ocr_results, \* local of _save_product_data_to_files
    json_data,        \* what was dumped to product_data.json
    exc               \* an exception is propagating out of scrape_product_data

scrapeVars == <<pc, args, page, driver_created, driver_quit, sku_container, container_clicks,
                style_elements, index, style_data, style_is_available,
                initial_img_src, size_elements, all_styles_data, stale,
                click_attempts, container_found, product_info, details_data,
                result_dict, product_data, saved, debug_files>>

ocrVars == <<_ocr_client, engine, cache, ocr_ret, last_path, calls, constructions,
             tmp_files>>

saveLocals == <<manifest, seen_main, seen_detail, window, attempts, fetch_log, main_texts,
                detail_ocr_results, json_data>>

saveVars == <<saveLocals, exc>>

vars == <<scrapeVars, fs, ocrVars, saveVars>>

(***************************************************************************)
(* Text: a string is a sequence of one-character strings, so that strip()  *)
(* is computed and not assumed.                                            *)
(***************************************************************************)
RECURSIVE LStrip(_)
LStrip(s) == IF s # <<>> /\ Head(s) = " " THEN LStrip(Tail(s)) ELSE s

RECURSIVE RStrip(_)
RStrip(s) == IF s # <<>> /\ s[Len(s)] = " " THEN RStrip(SubSeq(s, 1, Len(s) - 1)) ELSE s

Strip(s) == RStrip(LStrip(s))

\* Python's `a or b` on strings
OrElse(a, b) == IF a # <<>> THEN a ELSE b

(***************************************************************************)
(* Availability from the data-disabled attribute; "" is a missing or empty *)
(* attribute (get_attribute returns None or '').                           *)
(***************************************************************************)
DisabledAttrs == {"", "false", "true", "disabled"}

IsAvailable(attr) == (IF attr = "" THEN "false" ELSE attr) = "false"

(***************************************************************************)
(* Size axis: a raw item is what the DOM holds for one valueItem div.      *)
(***************************************************************************)
RawSizeItems ==
    { [title |-> <<"S">>, text |-> <<"S">>, disabled |-> "false"],
      [title |-> <<>>, text |-> <<" ", "S", " ">>, disabled |-> "true"],
      [title |-> <<" ">>, text |-> <<"M">>, disabled |-> "false"],
      [title |-> <<>>, text |-> <<>>, disabled |-> ""],
      [title |-> <<"M">>, text |-> <<>>, disabled |-> ""],
      [title |-> <<"M">>, text |-> <<"M">>, disabled |-> "disabled"] }

SeqsUpTo(S, n) == UNION { [1..k -> S] : k \in 0..n }

RawSizeLists == SeqsUpTo(RawSizeItems, MaxSizes)

SizeAxisSamples ==
    { <<>>,
      << [title |-> <<"S">>, text |-> <<"S">>, disabled |-> "false"],
         [title |-> <<>>, text |-> <<" ", "S", " ">>, disabled |-> "true"],
         [title |-> <<>>, text |-> <<>>, disabled |-> ""],
         [title |-> <<"M">>, text |-> <<>>, disabled |-> ""] >>,
      << [title |-> <<"M">>, text |-> <<"M">>, disabled |-> "disabled"],
         [title |-> <<"M">>, text |-> <<>>, disabled |-> ""] >> }

SizePool(tag) == IF tag = "all" THEN RawSizeLists ELSE SizeAxisSamples

\* lines 821-827: title attribute, else the text content, then strip()
SizeName(el) == Strip(OrElse(el.title, Strip(el.text)))

HasName(sizes, name) == \E i \in 1..Len(sizes) : sizes[i].name = name

\* lines 820-840: one turn of the loop over size_elements
AddSizeBug(sizes, el) ==
    IF SizeName(el) = <<>> THEN sizes
    ELSE Append(sizes, [name |-> SizeName(el), available |-> IsAvailable(el.disabled)])

AddSize(sizes, el) ==
    IF SizeName(el) = <<>> THEN sizes
    ELSE IF HasName(sizes, SizeName(el)) THEN sizes
    ELSE Append(sizes, [name |-> SizeName(el), available |-> IsAvailable(el.disabled)])

RECURSIVE ExtractSizesFrom(_, _)
ExtractSizesFrom(sizes, raw) ==
    IF raw = <<>> THEN sizes ELSE ExtractSizesFrom(AddSize(sizes, Head(raw)), Tail(raw))

ExtractSizes(raw) == ExtractSizesFrom(<<>>, raw)


(***************************************************************************)
(* Files and paths.  A path is a sequence of components; a file is known   *)
(* by its absolute path.                                                   *)
(***************************************************************************)
Cwd == "/cwd"

\* os.path.abspath
Abspath(path) == IF path # <<>> /\ Head(path) = Cwd THEN path ELSE <<Cwd>> \o path

Exists(files, path) == Abspath(path) \in DOMAIN files

GetSize(files, path) == files[Abspath(path)]

Put(f, k, v) == [x \in (DOMAIN f) \cup {k} |-> IF x = k THEN v ELSE f[x]]

Drop(f, k) == [x \in (DOMAIN f) \ {k} |-> f[x]]

EmptyMap == [x \in {} |-> 0]

(***************************************************************************)
(* OCR: _get_ocr_client, _run_ocr_from_file, _run_ocr_core.                *)
(***************************************************************************)
Modes == {"ok", "fail", "flaky"}

Outcomes(mode) == IF mode = "flaky" THEN {"ok", "fail"} ELSE {mode}

\* full_text is the list of recognized lines
Texts == {<<>>, <<"A">>, <<"B">>}

NoCalls == [recognize |-> 0, core |-> 0, predict |-> 0, ocr |-> 0]

\* the counters of one image file, whatever the spelling of its path
CallsOf(img) == IF img \in DOMAIN calls THEN calls[img] ELSE NoCalls

\* line 249
CacheKeyAsGiven(file_path) == file_path

CacheKey(file_path) == Abspath(file_path)

\* what one recognition leaves behind: the counters, the cache entry, the result
Recognized(file_path, key, c, usedPredict, usedOcr, res) ==
    /\ calls' = Put(calls, Abspath(file_path),
           [recognize |-> c.recognize + 1,
            core |-> c.core + 1,
            predict |-> c.predict + (IF usedPredict THEN 1 ELSE 0),
            ocr |-> c.ocr + (IF usedOcr THEN 1 ELSE 0)])
    /\ cache' = Put(cache, key, res)
    /\ ocr_ret' = res

OcrDict(file_path, text) == [kind |-> "ocr", image_url |-> file_path, full_text |-> text]

\* lines 428-442 of _run_ocr_core: predict() when the client has it, ocr() when
\* predict is missing or raised; None when ocr() raised as well
CoreRuns(file_path, key, c) ==
    LET hasPredict == engine.predict # "absent" IN
    \/ /\ hasPredict
       /\ "ok" \in Outcomes(engine.predict)
       /\ \E text \in Texts :
            Recognized(file_path, key, c, TRUE, FALSE, OcrDict(file_path, text))
    \/ /\ hasPredict => "fail" \in Outcomes(engine.predict)
       /\ \E o \in Outcomes(engine.ocr) :
            IF o = "ok"
              THEN \E text \in Texts :
                     Recognized(file_path, key, c, hasPredict, TRUE, OcrDict(file_path, text))
              ELSE Recognized(file_path, key, c, hasPredict, TRUE, NoneVal)

CaughtNever(outcome) == FALSE

\* the "except Exception" clauses of lines 162 and 172: an import or a
\* construction that raised is absorbed and leaves no client
Caught(outcome) == outcome = "fail"

\* lines 253-257: no client; the miss is cached as None
NoClient(key, counted) ==
    /\ ocr_ret' = NoneVal
    /\ cache' = Put(cache, key, NoneVal)
    /\ calls' = counted

\* line 265
Allowed == {".jpg", ".jpeg", ".png", ".bmp", ".pdf"}

WebpNames == {".webp", "detail_1.webp"}

\* line 264: os.path.splitext(file_path)[1] of the file names in use
Suffix(file_path) ==
    IF file_path[Len(file_path)] \in WebpNames THEN ".webp" ELSE ".jpg"

\* The temporary files of one recognition that outlive it.  The PNG of an
\* unsupported format (267-277) and the downscaled copy of an image with a side
\* over 4000 (414-424) are created by NamedTemporaryFile(delete=False) and their
\* name is kept (tmp_path, resize_path) only after save() has returned; the
\* finally clauses (294-299, 443-448) remove the files whose name was kept.
\* transcode and resize are the outcomes of the two save() calls.
TempFilesLeft(suffix, oversized, transcode, resize) ==
    (IF suffix \notin Allowed /\ transcode = "fail" THEN 1 ELSE 0)
      + (IF oversized /\ resize = "fail" THEN 1 ELSE 0)

ClientCachedNever(client) == FALSE

\* lines 157-159: "if _ocr_client is not None: return _ocr_client"
ClientCached(client) == client # None

\* lines 242-303 with _get_ocr_client (155-176) inlined
RunOcrFromFile(file_path) ==
    LET key == CacheKey(file_path)
        img == Abspath(file_path)
        c == CallsOf(img)
        counted == Put(calls, img, [c EXCEPT !.recognize = c.recognize + 1])
    IN
    /\ last_path' = file_path
    /\ IF ~Exists(fs, file_path) \/ GetSize(fs, file_path) = 0
         THEN \* lines 244-248
              /\ ocr_ret' = NoneVal
              /\ calls' = counted
              /\ UNCHANGED <<_ocr_client, cache, constructions>>
         ELSE IF key \in DOMAIN cache
         THEN \* lines 250-251
              /\ ocr_ret' = cache[key]
              /\ calls' = counted
              /\ UNCHANGED <<_ocr_client, cache, constructions>>
         ELSE IF ClientCached(_ocr_client)
         THEN \* lines 158-159
              /\ CoreRuns(file_path, key, c)
              /\ UNCHANGED <<_ocr_client, constructions>>
         ELSE \E imp \in Outcomes(engine.import) :
                IF Caught(imp)
                  THEN \* lines 161-165
                       /\ NoClient(key, counted)
                       /\ UNCHANGED <<_ocr_client, constructions>>
                  ELSE \E con \in Outcomes(engine.construct) :
                         /\ constructions' = constructions + 1
                         /\ IF Caught(con)
                              THEN \* lines 173-176
                                   /\ NoClient(key, counted)
                                   /\ UNCHANGED _ocr_client
                              ELSE /\ _ocr_client' = "ready"
                                   /\ CoreRuns(file_path, key, c)
    /\ IF CallsOf(img).core < calls'[img].core
         THEN \* a client was there: lines 259-299 and 412-448 ran
              \E oversized \in BOOLEAN, transcode, resize \in Outcomes(engine.pil) :
                 tmp_files' = tmp_files
                                + TempFilesLeft(Suffix(file_path), oversized, transcode, resize)
         ELSE tmp_files' = tmp_files
    /\ UNCHANGED <<fs, engine>>

(***************************************************************************)
(* The page and the call.                                                  *)
(***************************************************************************)
StaticSections == {"title", "shop", "shop_name", "shop_url", "shop_rating",
                   "shipping", "price", "coupons", "detail"}

\* sku_selectors, lines 567-583: the first selector whose wait succeeds
Matching(S) == S \cap (1..NumSkuSelectors)

FirstMatchAlways(S) ==
    IF Matching(S) = {} THEN 1
    ELSE CHOOSE s \in Matching(S) : \A t \in Matching(S) : s <= t

FirstMatch(S) ==
    IF Matching(S) = {} THEN 0
    ELSE CHOOSE s \in Matching(S) : \A t \in Matching(S) : s <= t

ScrapePages ==
    [ skuSelectors : {{}, {2, 4}},
      nStyles : 0..MaxStyles,
      sizePool : {"samples"},
      static : {StaticSections, {}} ]

SizePages ==
    [ skuSelectors : {{2, 4}},
      nStyles : {1},
      sizePool : {"all"},
      static : {StaticSections} ]

ScrapeArgs ==
    { [driver |-> "none", close_driver |-> FALSE, save_to_file |-> TRUE],
      [driver |-> "given", close_driver |-> FALSE, save_to_file |-> FALSE] }

\* _save_product_data_to_files has not been entered
SaveNotEntered ==
    /\ manifest = [main |-> <<>>, detail |-> <<>>]
    /\ seen_main = {}
    /\ seen_detail = {}
    /\ window = "open"
    /\ attempts = <<>>
    /\ fetch_log = <<>>
    /\ main_texts = <<>>
    /\ detail_ocr_results = <<>>
    /\ json_data = Unset
    /\ exc = FALSE

InitScrape(pages, argset) ==
    /\ pc = "start"
    /\ args \in argset
    /\ page \in pages
    /\ driver_created = FALSE
    /\ driver_quit = 0
    /\ sku_container = 0
    /\ container_clicks = 0
    /\ style_elements = 0
    /\ index = 0
    /\ style_data = NoneVal
    /\ style_is_available = FALSE
    /\ initial_img_src = None
    /\ size_elements = <<>>
    /\ all_styles_data = <<>>
    /\ stale = FALSE
    /\ click_attempts = <<>>
    /\ container_found = FALSE
    /\ product_info = NoneVal
    /\ details_data = NoneVal
    /\ result_dict = Unset
    /\ product_data = Unset
    /\ saved = FALSE
    /\ debug_files = {}
    /\ fs = EmptyMap
    /\ _ocr_client = None
    /\ engine = [import |-> "flaky", construct |-> "flaky", predict |-> "flaky",
                 ocr |-> "flaky", pil |-> "flaky"]
    /\ cache = EmptyMap
    /\ ocr_ret = NoneVal
    /\ last_path = <<>>
    /\ calls = EmptyMap
    /\ constructions = 0
    /\ tmp_files = 0
    /\ SaveNotEntered

\* locals of scrape_single_product are gone once it has returned
LocalsDropped ==
    /\ style_data' = NoneVal
    /\ style_is_available' = FALSE
    /\ initial_img_src' = None
    /\ size_elements' = <<>>
    /\ all_styles_data' = <<>>
    /\ index' = 0
    /\ style_elements' = 0
    /\ sku_container' = 0
    /\ container_clicks' = 0
    /\ stale' = FALSE
    /\ product_info' = NoneVal
    /\ details_data' = NoneVal

\* lines 1338-1347 and 549-558: driver creation, navigation, scrolling
Start ==
    /\ UNCHANGED <<fs, ocrVars, saveLocals>>
    /\ pc = "start"
    /\ driver_created' = (args.driver = "none")
    /\ IF args.driver = "none"
         THEN \* lines 1340-1347: the login page is loaded outside the try
              \E login \in {"loaded", "raised"} :
                /\ exc' = (login = "raised")
                /\ pc' = IF login = "raised" THEN "raised" ELSE "navigate"
         ELSE /\ exc' = FALSE
              /\ pc' = "navigate"
    /\ UNCHANGED <<args, page, driver_quit, sku_container, container_clicks, style_elements, index,
                   style_data, style_is_available, initial_img_src, size_elements,
                   all_styles_data, stale, click_attempts, container_found,
                   product_info, details_data, result_dict, product_data, saved,
                   debug_files>>

\* lines 549-558: the product page is loaded and scrolled before the try of
\* scrape_single_product; an exception here reaches the finally of line 1366
Navigate ==
    /\ UNCHANGED <<fs, ocrVars, saveLocals>>
    /\ pc = "navigate"
    /\ \E nav \in {"loaded", "raised"} :
         /\ exc' = (nav = "raised")
         /\ pc' = IF nav = "raised" THEN "finally" ELSE "find_container"
    /\ UNCHANGED <<args, page, driver_created, driver_quit, sku_container, container_clicks,
                   style_elements, index, style_data, style_is_available,
                   initial_img_src, size_elements, all_styles_data, stale,
                   click_attempts, container_found, product_info, details_data,
                   result_dict, product_data, saved, debug_files>>

\* lines 564-591
FindContainer ==
    /\ UNCHANGED <<fs, ocrVars, saveVars>>
    /\ pc = "find_container"
    /\ LET sel == FirstMatch(page.skuSelectors) IN
         /\ container_found' = (sel # 0)
         /\ IF sel = 0
              THEN /\ debug_files' = debug_files \cup {"debug_page_source.html"}
                   /\ result_dict' = NoneVal
                   /\ pc' = "scraped"
                   /\ LocalsDropped
              ELSE /\ sku_container' = sel
                   /\ container_clicks' = Len(click_attempts)
                   /\ pc' = "find_styles"
                   /\ UNCHANGED <<debug_files, result_dict, style_elements, index,
                                  style_data, style_is_available, initial_img_src,
                                  size_elements, all_styles_data, stale, product_info,
                                  details_data>>
    /\ UNCHANGED <<args, page, driver_created, driver_quit, click_attempts,
                   product_data, saved>>

\* lines 593-701: the four lookup methods yield the style items of the page
FindStyles ==
    /\ UNCHANGED <<fs, ocrVars, saveVars>>
    /\ pc = "find_styles"
    /\ IF page.nStyles = 0
         THEN /\ debug_files' = debug_files \cup {"debug_sku_container.html"}
              /\ result_dict' = NoneVal
              /\ pc' = "scraped"
              /\ LocalsDropped
         ELSE /\ style_elements' = page.nStyles
              /\ index' = 1
              /\ pc' = "item_avail"
              /\ UNCHANGED <<debug_files, result_dict, sku_container, container_clicks, style_data,
                             style_is_available, initial_img_src, size_elements,
                             all_styles_data, stale, product_info, details_data>>
    /\ UNCHANGED <<args, page, driver_created, driver_quit, click_attempts,
                   container_found, product_data, saved>>

\* lines 703-709: the availability read is outside every inner try; on a stale
\* handle get_attribute raises and the handler of lines 859-861 returns None
ItemAvail ==
    /\ UNCHANGED <<fs, ocrVars, saveVars>>
    /\ pc = "item_avail"
    /\ IF stale
         THEN /\ result_dict' = NoneVal
              /\ pc' = "scraped"
              /\ LocalsDropped
         ELSE /\ \E attr \in DisabledAttrs :
                   /\ style_is_available' = IsAvailable(attr)
                   /\ style_data' = [style_name |-> NA, image_url |-> NA,
                                     available |-> IsAvailable(attr), sizes |-> <<>>]
              /\ pc' = "item_name"
              /\ UNCHANGED <<result_dict, sku_container, container_clicks, style_elements, index,
                             initial_img_src, size_elements, all_styles_data, stale,
                             product_info, details_data>>
    /\ UNCHANGED <<args, page, driver_created, driver_quit, click_attempts,
                   container_found, product_data, saved, debug_files>>

\* lines 711-733: name from the valueItemText span, thumbnail inside the same try
ItemName ==
    /\ UNCHANGED <<fs, ocrVars, saveVars>>
    /\ pc = "item_name"
    /\ \E nameOk \in BOOLEAN, thumb \in BOOLEAN :
         /\ thumb => nameOk
         /\ style_data' = [style_data EXCEPT
                !.style_name = IF nameOk THEN "title" ELSE "Style_index",
                !.image_url = IF thumb THEN "thumb" ELSE NA]
    /\ initial_img_src' = None
    /\ pc' = "item_click"
    /\ UNCHANGED <<args, page, driver_created, driver_quit, sku_container, container_clicks,
                   style_elements, index, style_is_available, size_elements,
                   all_styles_data, stale, click_attempts, container_found,
                   product_info, details_data, result_dict, product_data, saved,
                   debug_files>>

\* line 750: the click block runs for an available item only
ShouldClickAlways(available) == TRUE

ShouldClick(available) == available

\* lines 750-767: inside one try, capture the main image and then click; an
\* exception other than NoSuchElementException in the capture reaches the
\* except of line 765 before the click is executed
ClickIssued(look) == look # "error"

ItemClick ==
    /\ UNCHANGED <<fs, ocrVars, saveVars>>
    /\ pc = "item_click"
    /\ IF ShouldClick(style_is_available)
         THEN \E look \in {"found", "none", "error"}, clickOk \in BOOLEAN,
                 rerender \in BOOLEAN :
                /\ initial_img_src' = IF look = "found" THEN "main_old" ELSE None
                /\ IF ClickIssued(look)
                     THEN /\ click_attempts' = Append(click_attempts, index)
                          /\ stale' = (clickOk /\ rerender)
                     ELSE /\ UNCHANGED <<click_attempts, stale>>
         ELSE /\ UNCHANGED <<initial_img_src, click_attempts, stale>>
    /\ pc' = "item_image"
    /\ UNCHANGED <<args, page, driver_created, driver_quit, sku_container, container_clicks,
                   style_elements, index, style_data, style_is_available,
                   size_elements, all_styles_data, container_found, product_info,
                   details_data, result_dict, product_data, saved, debug_files>>

\* what the main image element answers after the wait of line 775: a new src, the
\* src captured before the click, no element (None), or a lookup that raised
CurrentImages == {"main_new", "main_old", None, "error"}

RecordedImageCurrent(image_url, initial, cur) ==
    IF cur \in {"main_new", "main_old"} THEN cur
    ELSE IF image_url = NA THEN initial
    ELSE image_url

\* lines 786-798: the current src is recorded only when it differs from the one
\* captured before the click; otherwise the thumbnail stays, and an item without
\* thumbnail takes "current_img_src or initial_img_src"
RecordedImage(image_url, initial, cur) ==
    IF cur \notin {None, "error"} /\ cur # initial THEN cur
    ELSE IF image_url = NA THEN initial
    ELSE image_url

\* lines 771-798: only after a click with a captured main image
ItemImage ==
    /\ UNCHANGED <<fs, ocrVars, saveVars>>
    /\ pc = "item_image"
    /\ IF style_is_available /\ initial_img_src # None
         THEN \E cur \in CurrentImages :
                style_data' = [style_data EXCEPT !.image_url =
                                  RecordedImage(@, initial_img_src, cur)]
         ELSE UNCHANGED style_data
    /\ pc' = "item_sizes"
    /\ UNCHANGED <<args, page, driver_created, driver_quit, sku_container, container_clicks,
                   style_elements, index, style_is_available, initial_img_src,
                   size_elements, all_styles_data, stale, click_attempts,
                   container_found, product_info, details_data, result_dict,
                   product_data, saved, debug_files>>

RefoundNot(held, fresh) == held

\* line 803: sku_container is re-assigned from _refind_sku_container, which waits
\* on the document (465-478); the handle held so far is dropped
Refound(held, fresh) == fresh

\* lines 800-847: runs for every item, available or not
ItemSizes ==
    /\ UNCHANGED <<fs, ocrVars, saveVars>>
    /\ pc = "item_sizes"
    /\ container_clicks' = Refound(container_clicks, Len(click_attempts))
    /\ \/ \* _refind_sku_container returned None (RuntimeError), caught at 845
          /\ sku_container' = 0
          /\ size_elements' = <<>>
          /\ style_data' = [style_data EXCEPT !.sizes = <<>>]
       \/ \* no size axis (809-811), or a lookup or attribute read raised (845-847)
          /\ sku_container' = FirstMatch(page.skuSelectors)
          /\ size_elements' = <<>>
          /\ style_data' = [style_data EXCEPT !.sizes = <<>>]
       \/ \E raw \in SizePool(page.sizePool) :
            /\ sku_container' = FirstMatch(page.skuSelectors)
            /\ size_elements' = raw
            /\ style_data' = [style_data EXCEPT !.sizes = ExtractSizes(raw)]
    /\ pc' = "item_append"
    /\ UNCHANGED <<args, page, driver_created, driver_quit, style_elements, index,
                   style_is_available, initial_img_src, all_styles_data, stale,
                   click_attempts, container_found, product_info, details_data,
                   result_dict, product_data, saved, debug_files>>

NextIndexSame(i) == i

\* line 703: enumerate(style_elements) hands out each handle once, in order
NextIndex(i) == i + 1

\* lines 849-854
ItemAppend ==
    /\ UNCHANGED <<fs, ocrVars, saveVars>>
    /\ pc = "item_append"
    /\ all_styles_data' = Append(all_styles_data, style_data)
    /\ style_data' = NoneVal
    /\ size_elements' = <<>>
    /\ initial_img_src' = None
    /\ IF index < style_elements
         THEN /\ index' = NextIndex(index)
              /\ pc' = "item_avail"
         ELSE /\ index' = index
              /\ pc' = "static_title"
    /\ UNCHANGED <<args, page, driver_created, driver_quit, sku_container, container_clicks,
                   style_elements, style_is_available, stale, click_attempts,
                   container_found, product_info, details_data, result_dict,
                   product_data, saved, debug_files>>


(***************************************************************************)
(* Static fields, lines 863-978.  Each block has its own try/except; what  *)
(* it finds is decided by the sections the page holds.                     *)
(***************************************************************************)
Has(section) == section \in page.static

\* lines 870-881
TitleOf == IF Has("title") THEN "title" ELSE "page_title"

\* lines 883-929
ShopOf ==
    IF Has("shop")
      THEN [name |-> IF Has("shop_name") THEN "name" ELSE "Unknown Shop",
            url |-> IF Has("shop_url") THEN "url" ELSE "",
            rating |-> IF Has("shop_rating") THEN "rating" ELSE ""]
      ELSE [name |-> "Unknown Shop", url |-> "", rating |-> ""]

\* lines 931-978
ShippingOf == IF Has("shipping") THEN "shipping" ELSE "empty"
PriceOf == IF Has("price") THEN "price" ELSE "empty"
CouponsOf == IF Has("coupons") THEN "coupons" ELSE "empty"

ExtractStatic ==
    /\ UNCHANGED <<fs, ocrVars, saveVars>>
    /\ pc = "static_title"
    /\ product_info' = [title |-> TitleOf, shop |-> ShopOf, shipping |-> ShippingOf,
                        price |-> PriceOf, coupons |-> CouponsOf]
    /\ pc' = "details"
    /\ UNCHANGED <<args, page, driver_created, driver_quit, sku_container, container_clicks,
                   style_elements, index, style_data, style_is_available,
                   initial_img_src, size_elements, all_styles_data, stale,
                   click_attempts, container_found, details_data, result_dict,
                   product_data, saved, debug_files>>

\* lines 987-1012 and 1014-1317: scrape_product_details never raises; the result
\* dict is assembled and scrape_single_product returns
ScrapeDetails ==
    /\ UNCHANGED <<fs, ocrVars, saveVars>>
    /\ pc = "details"
    /\ result_dict' = [kind |-> "dict",
                       product_info |-> product_info,
                       styles |-> all_styles_data,
                       product_details |-> IF Has("detail") THEN "details" ELSE "empty"]
    /\ pc' = "scraped"
    /\ LocalsDropped
    /\ UNCHANGED <<args, page, driver_created, driver_quit, click_attempts,
                   container_found, product_data, saved, debug_files>>

(***************************************************************************)
(* scrape_product_data, lines 1349-1369.                                   *)
(***************************************************************************)
\* lines 1418-1435
DictToStyle(d) ==
    [style_name |-> d.style_name, image_url |-> d.image_url,
     available |-> d.available, sizes |-> d.sizes, ocr |-> NoneVal]

\* lines 1391-1461
DictToProductData(d) ==
    [kind |-> "ProductData",
     product_info |-> d.product_info,
     styles |-> [i \in 1..Len(d.styles) |-> DictToStyle(d.styles[i])],
     product_details |-> d.product_details]

\* lines 1351-1358
Convert ==
    /\ UNCHANGED <<fs, ocrVars, saveVars>>
    /\ pc = "scraped"
    /\ IF result_dict = NoneVal
         THEN /\ product_data' = NoneVal
              /\ pc' = "finally"
         ELSE /\ product_data' = DictToProductData(result_dict)
              /\ pc' = IF args.save_to_file THEN "save" ELSE "finally"
    /\ UNCHANGED <<args, page, driver_created, driver_quit, sku_container, container_clicks,
                   style_elements, index, style_data, style_is_available,
                   initial_img_src, size_elements, all_styles_data, stale,
                   click_attempts, container_found, product_info, details_data,
                   result_dict, saved, debug_files>>

\* lines 1360-1362: the call of _save_product_data_to_files (its body is the save
\* machine below)
SaveCall ==
    /\ UNCHANGED <<fs, ocrVars, saveLocals>>
    /\ pc = "save"
    /\ \E raised \in BOOLEAN :
         /\ saved' = ~raised
         /\ exc' = raised
    /\ pc' = "finally"
    /\ UNCHANGED <<args, page, driver_created, driver_quit, sku_container, container_clicks,
                   style_elements, index, style_data, style_is_available,
                   initial_img_src, size_elements, all_styles_data, stale,
                   click_attempts, container_found, product_info, details_data,
                   result_dict, product_data, debug_files>>

\* lines 1366-1369
Finally ==
    /\ UNCHANGED <<fs, ocrVars, saveVars>>
    /\ pc = "finally"
    /\ driver_quit' = IF driver_created \/ args.close_driver
                        THEN driver_quit + 1 ELSE driver_quit
    /\ pc' = IF exc THEN "raised" ELSE "done"
    /\ UNCHANGED <<args, page, driver_created, sku_container, container_clicks, style_elements, index,
                   style_data, style_is_available, initial_img_src, size_elements,
                   all_styles_data, stale, click_attempts, container_found,
                   product_info, details_data, result_dict, product_data, saved,
                   debug_files>>

NextScrape ==
    \/ Start
    \/ Navigate
    \/ FindContainer
    \/ FindStyles
    \/ ItemAvail
    \/ ItemName
    \/ ItemClick
    \/ ItemImage
    \/ ItemSizes
    \/ ItemAppend
    \/ ExtractStatic
    \/ ScrapeDetails
    \/ Convert
    \/ SaveCall
    \/ Finally

Init == InitScrape(ScrapePages, ScrapeArgs)

Next == NextScrape

Spec == Init /\ [][Next]_vars

SpecSizes == InitScrape(SizePages, ScrapeArgs) /\ [][NextScrape]_vars


(***************************************************************************)
(* Claims about the scrape.                                                *)
(***************************************************************************)
Returned == pc = "done"

IsRecord(v) == v.kind = "ProductData"

Range(q) == { q[i] : i \in 1..Len(q) }

Count(q, x) == Cardinality({ i \in 1..Len(q) : q[i] = x })

\* C2: when no SKU-container selector matches, scrape_single_product and
\* scrape_product_data both yield None, nothing is converted or saved, and
\* debug_page_source.html has been written by the time the scrape has returned.
C2_ContainerFailureIsExplicit ==
    page.skuSelectors = {} =>
        /\ ~saved
        /\ product_data \in {Unset, NoneVal}
        /\ result_dict \in {Unset, NoneVal}
        /\ (pc \in {"scraped", "finally", "done"} /\ ~exc) =>
              /\ result_dict = NoneVal
              /\ "debug_page_source.html" \in debug_files
        /\ Returned => product_data = NoneVal

C2_Witness ==
    /\ Returned
    /\ page.skuSelectors = {}
    /\ args.save_to_file
    /\ product_data = NoneVal

\* C3: whenever the SKU container was located, scrape_product_data returns a
\* ProductData.
C3_OnlyContainerFailureAborts ==
    (Returned /\ container_found) => IsRecord(product_data)

\* C4: a product whose SKU container is found and which has no style axis is
\* returned as a record with exactly one (implicit) variant.
C4_SizeOnlyProductSucceeds ==
    (Returned /\ page.skuSelectors # {} /\ page.nStyles = 0) =>
        /\ IsRecord(product_data)
        /\ Len(product_data.styles) = 1

\* C5: a failure while reading one field of a style item (here: its
\* availability attribute, the one read the loop makes outside a try) leaves
\* the scrape running, so a page with a container and style items always
\* yields a record.
C5_FieldFailureNeverAborts ==
    (Returned /\ container_found /\ page.nStyles > 0) =>
        /\ IsRecord(product_data)
        /\ Len(product_data.styles) = page.nStyles

\* C6: in a returned record the click script was executed exactly once for
\* every available style item and never for an unavailable one.
C6_OneClickPerAvailableItem ==
    (Returned /\ IsRecord(product_data)) =>
        \A i \in 1..Len(product_data.styles) :
            Count(click_attempts, i) = IF product_data.styles[i].available THEN 1 ELSE 0

RecordedStyles ==
    Range(all_styles_data)
      \cup (IF IsRecord(product_data) THEN Range(product_data.styles) ELSE {})

\* C7 (as claimed): a recorded variant with available = false has an empty
\* sizes list.
C7_UnavailableHasNoSizes ==
    \A st \in RecordedStyles : ~st.available => st.sizes = <<>>

\* C7 (amended): for a variant with available = false no click is executed and
\* no main-image wait is made (its image stays "N/A" or the thumbnail); its
\* sizes are still read, and are the de-duplicated items of the size axis as
\* the page shows it at that moment.
C7_UnavailableIsNeverClicked ==
    /\ \A i \in 1..Len(all_styles_data) :
          ~all_styles_data[i].available =>
              /\ i \notin Range(click_attempts)
              /\ all_styles_data[i].image_url \in {NA, "thumb"}
    /\ (pc \in {"item_image", "item_sizes", "item_append"} /\ ~style_is_available) =>
          /\ index \notin Range(click_attempts)
          /\ initial_img_src = None
          /\ style_data.image_url \in {NA, "thumb"}
    /\ (pc = "item_append" /\ ~style_is_available) =>
          style_data.sizes = ExtractSizes(size_elements)
    /\ (Returned /\ IsRecord(product_data)) =>
          \A i \in 1..Len(product_data.styles) :
              ~product_data.styles[i].available =>
                  /\ i \notin Range(click_attempts)
                  /\ product_data.styles[i].image_url \in {NA, "thumb"}

C7_Witness ==
    /\ Returned
    /\ IsRecord(product_data)
    /\ \E i \in 1..Len(product_data.styles) :
          /\ ~product_data.styles[i].available
          /\ product_data.styles[i].sizes # <<>>
    /\ click_attempts # <<>>

\* C8: in every recorded variant the size names are non-empty, stripped and
\* pairwise distinct; right after the size axis was read, the sizes are the
\* distinct non-empty stripped names of the raw items in order of first
\* occurrence, each with the availability of its first occurrence.
StrippedName(el) == Strip(IF el.title # <<>> THEN el.title ELSE Strip(el.text))

FirstIndexOf(raw, name) ==
    CHOOSE j \in 1..Len(raw) :
        /\ StrippedName(raw[j]) = name
        /\ \A k \in 1..(j - 1) : StrippedName(raw[k]) # name

NamesDistinct(sizes) ==
    \A i, j \in 1..Len(sizes) :
        /\ sizes[i].name # <<>>
        /\ Strip(sizes[i].name) = sizes[i].name
        /\ (i # j => sizes[i].name # sizes[j].name)

FirstOccurrenceWins(raw, sizes) ==
    /\ \A j \in 1..Len(raw) :
          StrippedName(raw[j]) # <<>> =>
              \E i \in 1..Len(sizes) : sizes[i].name = StrippedName(raw[j])
    /\ \A i \in 1..Len(sizes) :
          /\ \E j \in 1..Len(raw) : StrippedName(raw[j]) = sizes[i].name
          /\ sizes[i].available =
                (raw[FirstIndexOf(raw, sizes[i].name)].disabled \in {"", "false"})
    /\ \A i, k \in 1..Len(sizes) :
          i < k => FirstIndexOf(raw, sizes[i].name) < FirstIndexOf(raw, sizes[k].name)

C8_SizeNamesUnique ==
    /\ \A st \in RecordedStyles : NamesDistinct(st.sizes)
    /\ pc = "item_append" =>
          /\ NamesDistinct(style_data.sizes)
          /\ size_elements # <<>> => FirstOccurrenceWins(size_elements, style_data.sizes)

C8_Witness ==
    /\ pc = "item_append"
    /\ Len(size_elements) = 3
    /\ \E i, j, k \in 1..3 :
          /\ i < j
          /\ StrippedName(size_elements[i]) = StrippedName(size_elements[j])
          /\ StrippedName(size_elements[i]) # <<>>
          /\ size_elements[i].disabled = "true"
          /\ size_elements[j].disabled = "false"
          /\ StrippedName(size_elements[k]) = <<>>
    /\ Len(style_data.sizes) = 1
    /\ ~style_data.sizes[1].available


(***************************************************************************)
(* A session of recognize calls on local files with one shared cache       *)
(* (test/test_ocr_local.py, lines 37-43).                                  *)
(***************************************************************************)
MaxOcrCalls == 3

OcrFiles == { <<"out", "main_1.jpg">>, <<"out", "detail_1.webp">> }

Spellings == OcrFiles \cup { Abspath(f) : f \in OcrFiles }

Engines ==
    [ import : {"flaky"}, construct : {"flaky"}, predict : {"absent", "flaky"},
      ocr : {"flaky"}, pil : {"flaky"} ]

FileStates == [ { Abspath(f) : f \in OcrFiles } -> {0, 1} ]

ocr_calls_made == LET keys == DOMAIN calls IN
    IF keys = {} THEN 0
    ELSE LET RECURSIVE Sum(_)
             Sum(K) == IF K = {} THEN 0
                       ELSE LET k == CHOOSE x \in K : TRUE
                            IN calls[k].recognize + Sum(K \ {k})
         IN Sum(keys)

InitOcr ==
    /\ pc = "ocr_session"
    /\ args = NoneVal
    /\ page = NoneVal
    /\ driver_created = FALSE
    /\ driver_quit = 0
    /\ sku_container = 0
    /\ container_clicks = 0
    /\ style_elements = 0
    /\ index = 0
    /\ style_data = NoneVal
    /\ style_is_available = FALSE
    /\ initial_img_src = None
    /\ size_elements = <<>>
    /\ all_styles_data = <<>>
    /\ stale = FALSE
    /\ click_attempts = <<>>
    /\ container_found = FALSE
    /\ product_info = NoneVal
    /\ details_data = NoneVal
    /\ result_dict = Unset
    /\ product_data = Unset
    /\ saved = FALSE
    /\ debug_files = {}
    /\ \E present \in SUBSET { Abspath(f) : f \in OcrFiles }, sizes \in FileStates :
          fs = [f \in present |-> sizes[f]]
    /\ _ocr_client = None
    /\ engine \in Engines
    /\ cache = EmptyMap
    /\ ocr_ret = NoneVal
    /\ last_path = <<>>
    /\ calls = EmptyMap
    /\ constructions = 0
    /\ tmp_files = 0
    /\ SaveNotEntered

\* test_ocr_local.main, lines 37-43: one call per target, same cache
OcrCall ==
    /\ pc = "ocr_session"
    /\ ocr_calls_made < MaxOcrCalls
    /\ \E path \in Spellings : RunOcrFromFile(path)
    /\ UNCHANGED <<scrapeVars, saveVars>>

NextOcr == OcrCall

SpecOcr == InitOcr /\ [][NextOcr]_vars

(***************************************************************************)
(* Claims about the OCR cache.                                             *)
(***************************************************************************)
EngineCalls(img) == calls[img].predict + calls[img].ocr

FileUsable(path) == Exists(fs, path) /\ GetSize(fs, path) > 0

\* C1 (as stated): over any sequence of recognize calls sharing one cache, the
\* OCR engine is invoked at most once per distinct image path.
C1_EngineInvokedAtMostOncePerPath ==
    \A img \in DOMAIN calls : EngineCalls(img) <= 1

\* C1 (amended): per distinct image file, whatever the spelling of its path,
\* there is at most one recognition run; that run calls predict() at most once
\* and ocr() at most once, ocr() only in that same run; and a call on a usable
\* file whose key is already cached returns the cached value and makes no
\* engine call.
C1_OneRecognitionRunPerPath ==
    /\ \A img \in DOMAIN calls :
         /\ calls[img].core <= 1
         /\ calls[img].predict <= calls[img].core
         /\ calls[img].ocr <= calls[img].core
    /\ \A img \in DOMAIN cache : img = Abspath(img)
    /\ (last_path # <<>> /\ FileUsable(last_path)) =>
         /\ Abspath(last_path) \in DOMAIN cache
         /\ ocr_ret = cache[Abspath(last_path)]

\* the same file recognized under both spellings, predict() raised and ocr()
\* answered: two calls, one run, the second call served from the cache
C1_Witness ==
    \E img \in DOMAIN calls :
        /\ calls[img].recognize >= 2
        /\ calls[img].core = 1
        /\ calls[img].predict = 1
        /\ calls[img].ocr = 1
        /\ last_path # img
        /\ Abspath(last_path) = img
        /\ img \in DOMAIN cache
        /\ cache[img].kind = "ocr"
        /\ ocr_ret = cache[img]

(***************************************************************************)
(* Image acquisition: _dom_fetch_image_new_tab, _browser_fetch_image,      *)
(* _fetch_image_bytes, _download_image.                                    *)
(***************************************************************************)
MaxImages == 2

\* byte lengths of the response bodies the image host serves
Bodies == {0, 1}

\* a URL is <<base name of its path, extension of its path>>
UrlA == <<"a", ".jpg">>
UrlB == <<"b", ".webp">>
UrlNA == <<"N/A", "">>

\* the in-page scripts answer btoa(body), lines 1474-1483 and 1540-1552; a base64
\* string is its number of characters and of '=' padding characters
Btoa(n) == [chars |-> 4 * ((n + 2) \div 3), pad |-> (3 - (n % 3)) % 3]

\* Python's truth value of the string
Truthy(b64) == b64.chars > 0

\* base64.b64decode: the byte length of the decoded content
B64Decode(b64) == (b64.chars \div 4) * 3 - b64.pad

NoBytes == 0 - 1

\* what execute_async_script hands back: the script's result dict, or it raised
ScriptResults ==
    { [kind |-> "raised"], [kind |-> "result", ok |-> FALSE, base64 |-> Btoa(0)] }
      \cup { [kind |-> "result", ok |-> TRUE, base64 |-> Btoa(n)] : n \in Bodies }

\* tier 1 can also raise before the new tab is the current window (lines 1505-1507)
Tier1Answers == ScriptResults \cup { [kind |-> "no_tab"] }

Tier2Answers == ScriptResults

BytesUnchecked(result) ==
    IF result.kind = "result" /\ result.ok
      THEN B64Decode(result.base64) ELSE NoBytes

\* lines 1559-1561 and 1487-1488: bytes only from an ok result with a non-empty
\* base64 field
Bytes(result) ==
    IF result.kind = "result" /\ result.ok /\ Truthy(result.base64)
      THEN B64Decode(result.base64) ELSE NoBytes

\* lines 1631-1637
output_folder == <<"scraped_data", "scraped_data_ts">>

main_image_dir == output_folder \o <<"images", "main">>

detail_image_dir == output_folder \o <<"images", "detail">>

Decimal == <<"1", "2", "3", "4", "5", "6", "7", "8", "9">>

\* str(index)
Str(i) == Decimal[i]

\* lines 1594-1597
Ext(url) == IF url[2] = "" THEN ".jpg" ELSE url[2]

\* line 1600: sha1 of the whole URL
ShortHash(url) == IF url[2] = "" THEN url[1] ELSE url[1] \o url[2]

LocalPathNoIndex(dest_dir, filename_prefix, idx, url) ==
    dest_dir \o <<filename_prefix, Str(1), ShortHash(url), Ext(url)>>

\* lines 1601-1602: dest_dir / f"{filename_prefix}_{index}_{short_hash}{ext}"
LocalPath(dest_dir, filename_prefix, idx, url) ==
    dest_dir \o <<filename_prefix, Str(idx), ShortHash(url), Ext(url)>>

\* os.path.relpath(path, start), start being a prefix of path
Relpath(path, start) == SubSeq(path, Len(start) + 1, Len(path))

\* os.path.join
Join(a, b) == a \o b

\* lines 1578-1584 after line 1502 has passed: the new-tab fetch, then the in-page
\* fetch if the first gave nothing.  When tier 1 raised before the new tab became
\* the current window, its finally clause (1566-1573) closes the window the driver
\* is on, and the tier-2 script raises on the closed window.
\* tried lists the tiers called, in call order.
FetchedBoth(t1, t2) ==
    [content |-> IF Bytes(t2) # NoBytes THEN Bytes(t2) ELSE Bytes(t1),
     tier |-> IF Bytes(t2) # NoBytes THEN "tier2"
              ELSE IF Bytes(t1) # NoBytes THEN "tier1" ELSE "none",
     tried |-> <<"tier1", "tier2">>]

Fetched(t1, t2) ==
    IF Bytes(t1) # NoBytes
      THEN [content |-> Bytes(t1), tier |-> "tier1", tried |-> <<"tier1">>]
    ELSE IF t1.kind = "no_tab"
      THEN [content |-> NoBytes, tier |-> "none", tried |-> <<"tier1", "tier2">>]
    ELSE IF Bytes(t2) # NoBytes
      THEN [content |-> Bytes(t2), tier |-> "tier2", tried |-> <<"tier1", "tier2">>]
    ELSE [content |-> NoBytes, tier |-> "none", tried |-> <<"tier1", "tier2">>]

HasContentAlways(content) == TRUE

\* line 1606: "if content is None" ends the download without a file
HasContent(content) == content # NoBytes

Entry(url, local_path) == [url |-> url, file |-> Relpath(local_path, output_folder)]

\* _download_image (1587-1625) with _fetch_image_bytes inlined, and the manifest
\* append of its caller (1660-1665, 1674-1679)
DownloadImage(section, url, dest_dir, filename_prefix, idx) ==
    LET local_path == LocalPath(dest_dir, filename_prefix, idx, url) IN
    IF window = "closed"
      THEN \* line 1502: driver.current_window_handle raises, outside any try
           /\ exc' = TRUE
           /\ attempts' = Append(attempts, [section |-> section, url |-> url,
                                            path |-> local_path,
                                            tier |-> "raised", written |-> FALSE])
           /\ UNCHANGED <<fs, window, manifest>>
      ELSE \E t1 \in Tier1Answers, t2 \in Tier2Answers :
             LET got == Fetched(t1, t2) IN
             \E wrote \in BOOLEAN :
               /\ wrote => HasContent(got.content)
               /\ window' = IF t1.kind = "no_tab" THEN "closed" ELSE "open"
               /\ fs' = IF wrote
                          THEN Put(fs, Abspath(local_path), got.content)
                          ELSE Drop(fs, Abspath(local_path))
               /\ manifest' = IF wrote
                                THEN [manifest EXCEPT
                                        ![section] = Append(@, Entry(url, local_path))]
                                ELSE manifest
               /\ attempts' = Append(attempts, [section |-> section, url |-> url,
                                                path |-> local_path,
                                                tier |-> got.tier, written |-> wrote])
               /\ exc' = FALSE

(***************************************************************************)
(* _save_product_data_to_files, lines 1628-1800.                           *)
(***************************************************************************)
Styles == product_data.styles

ImageDetails == product_data.product_details.image_details

saveFixed == <<args, page, driver_created, driver_quit, sku_container, container_clicks,
               style_elements, style_data, style_is_available, initial_img_src,
               size_elements, all_styles_data, stale, click_attempts,
               container_found, product_info, details_data, result_dict,
               debug_files>>

\* lines 1631-1652
SaveBegin ==
    /\ pc = "save"
    /\ manifest' = [main |-> <<>>, detail |-> <<>>]
    /\ seen_main' = {}
    /\ index' = 1
    /\ pc' = "save_main"
    /\ UNCHANGED <<saveFixed, product_data, saved, fs, ocrVars, seen_detail, window,
                   attempts, fetch_log, main_texts, detail_ocr_results, json_data, exc>>

SkippedOnlyIfEmpty(img_url, seen) == img_url = <<>>

\* lines 1656 and 1670: "if not img_url or img_url in seen: continue"
Skipped(img_url, seen) == img_url = <<>> \/ img_url \in seen

\* lines 1654-1665: one iteration of the loop over the styles
DownloadMain ==
    /\ pc = "save_main"
    /\ index <= Len(Styles)
    /\ LET img_url == Styles[index].image_url IN
       IF Skipped(img_url, seen_main)
         THEN /\ pc' = "save_main"
              /\ UNCHANGED <<seen_main, fs, window, manifest, attempts, exc>>
         ELSE /\ seen_main' = seen_main \cup {img_url}
              /\ DownloadImage("main", img_url, main_image_dir, "main", index)
              /\ pc' = IF exc' THEN "finally" ELSE "save_main"
    /\ index' = index + 1
    /\ UNCHANGED <<saveFixed, product_data, saved, ocrVars, seen_detail, fetch_log,
                   main_texts, detail_ocr_results, json_data>>

\* lines 1667-1668
MainLoopEnd ==
    /\ pc = "save_main"
    /\ index > Len(Styles)
    /\ seen_detail' = {}
    /\ index' = 1
    /\ pc' = "save_detail"
    /\ UNCHANGED <<saveFixed, product_data, saved, fs, ocrVars, manifest, seen_main,
                   window, attempts, fetch_log, main_texts, detail_ocr_results, json_data, exc>>

\* lines 1669-1679: one iteration of the loop over the detail images
DownloadDetail ==
    /\ pc = "save_detail"
    /\ index <= Len(ImageDetails)
    /\ LET img_url == ImageDetails[index] IN
       IF Skipped(img_url, seen_detail)
         THEN /\ pc' = "save_detail"
              /\ UNCHANGED <<seen_detail, fs, window, manifest, attempts, exc>>
         ELSE /\ seen_detail' = seen_detail \cup {img_url}
              /\ DownloadImage("detail", img_url, detail_image_dir, "detail", index)
              /\ pc' = IF exc' THEN "finally" ELSE "save_detail"
    /\ index' = index + 1
    /\ UNCHANGED <<saveFixed, product_data, saved, ocrVars, seen_main, fetch_log,
                   main_texts, detail_ocr_results, json_data>>

manifest_path == output_folder \o <<"images", "download_manifest.json">>

\* lines 1681-1691: the manifest is dumped and the OCR stage starts on a fresh cache
WriteManifest ==
    /\ pc = "save_detail"
    /\ index > Len(ImageDetails)
    /\ fs' = Put(fs, Abspath(manifest_path), 1)
    /\ cache' = EmptyMap
    /\ main_texts' = <<>>
    /\ index' = 1
    /\ pc' = "save_ocr_main"
    /\ UNCHANGED <<saveFixed, product_data, saved, _ocr_client, engine, ocr_ret,
                   last_path, calls, constructions, tmp_files, manifest, seen_main, seen_detail,
                   window, attempts, fetch_log, detail_ocr_results, json_data, exc>>

\* {entry["url"]: entry["file"] for entry in entries}: the last entry of a URL wins
MapOf(entries) ==
    [u \in { entries[i].url : i \in 1..Len(entries) } |->
        LET last == CHOOSE i \in 1..Len(entries) :
                       /\ entries[i].url = u
                       /\ \A j \in (i + 1)..Len(entries) : entries[j].url # u
        IN entries[last].file]

\* lines 1372-1388
DictToOcrResult(d) ==
    [kind |-> "OCRResult", image_url |-> d.image_url, full_text |-> d.full_text]

\* lines 1692-1702: one iteration of the OCR loop over the styles
OcrMain ==
    /\ pc = "save_ocr_main"
    /\ index <= Len(Styles)
    /\ LET img_url == Styles[index].image_url
           main_map == MapOf(manifest.main)
       IN IF img_url \in DOMAIN main_map
            THEN /\ RunOcrFromFile(Join(output_folder, main_map[img_url]))
                 /\ IF ocr_ret' # NoneVal
                      THEN /\ product_data' = [product_data EXCEPT
                                  !.styles[index].ocr = DictToOcrResult(ocr_ret')]
                           /\ main_texts' = IF ocr_ret'.full_text # <<>>
                                              THEN Append(main_texts, ocr_ret'.full_text)
                                              ELSE main_texts
                      ELSE UNCHANGED <<product_data, main_texts>>
            ELSE UNCHANGED <<fs, ocrVars, product_data, main_texts>>
    /\ index' = index + 1
    /\ pc' = "save_ocr_main"
    /\ UNCHANGED <<saveFixed, saved, manifest, seen_main, seen_detail, window,
                   attempts, fetch_log, detail_ocr_results, json_data, exc>>

\* lines 1704-1705
OcrMainEnd ==
    /\ pc = "save_ocr_main"
    /\ index > Len(Styles)
    /\ detail_ocr_results' = <<>>
    /\ index' = 1
    /\ pc' = "save_ocr_detail"
    /\ UNCHANGED <<saveFixed, product_data, saved, fs, ocrVars, manifest, seen_main,
                   seen_detail, window, attempts, fetch_log, main_texts, json_data, exc>>

\* lines 1706-1712: one iteration of the OCR loop over the detail images
OcrDetail ==
    /\ pc = "save_ocr_detail"
    /\ index <= Len(ImageDetails)
    /\ LET url == ImageDetails[index]
           detail_map == MapOf(manifest.detail)
       IN IF url \in DOMAIN detail_map
            THEN /\ RunOcrFromFile(Join(output_folder, detail_map[url]))
                 /\ detail_ocr_results' =
                        IF ocr_ret' # NoneVal
                          THEN Append(detail_ocr_results, DictToOcrResult(ocr_ret'))
                          ELSE detail_ocr_results
            ELSE UNCHANGED <<fs, ocrVars, detail_ocr_results>>
    /\ index' = index + 1
    /\ pc' = "save_ocr_detail"
    /\ UNCHANGED <<saveFixed, product_data, saved, manifest, seen_main, seen_detail,
                   window, attempts, fetch_log, main_texts, json_data, exc>>

RECURSIVE JoinLines(_)
\* "\n".join(texts), a text being the sequence of its lines
JoinLines(texts) ==
    IF texts = <<>> THEN <<>> ELSE Head(texts) \o JoinLines(Tail(texts))

RECURSIVE Unique(_, _)
\* lines 1717-1724: order-preserving removal of repeated texts
Unique(texts, seen) ==
    IF texts = <<>> THEN <<>>
    ELSE IF Head(texts) \in seen THEN Unique(Tail(texts), seen)
    ELSE <<Head(texts)>> \o Unique(Tail(texts), seen \cup {Head(texts)})

NonEmptyText(t) == t # <<>>

\* lines 1733-1737
JsonStyle(style, main_map) ==
    IF style.image_url # <<>> /\ style.image_url \in DOMAIN main_map
      THEN [style EXCEPT !.image_url = main_map[style.image_url]]
             @@ [image_url_original |-> style.image_url]
      ELSE style

\* lines 1739-1750
JsonDetails(details, detail_map) ==
    [details EXCEPT !.image_details =
        [i \in 1..Len(details.image_details) |->
            IF details.image_details[i] \in DOMAIN detail_map
              THEN detail_map[details.image_details[i]]
              ELSE details.image_details[i]]]
      @@ [image_details_original |-> details.image_details]

WithOcrTextsInPlace(details) ==
    LET relocated == JsonDetails(details, MapOf(manifest.detail))
    IN [details EXCEPT !.image_details = relocated.image_details]

\* lines 1713-1725
WithOcrTexts(details) ==
    LET texts == SelectSeq([i \in 1..Len(detail_ocr_results) |->
                               detail_ocr_results[i].full_text], NonEmptyText)
        d1 == IF detail_ocr_results # <<>>
                THEN [details EXCEPT !.image_details_ocr = detail_ocr_results,
                                     !.detail_images_ocr_text = JoinLines(texts)]
                ELSE details
    IN IF main_texts # <<>>
         THEN [d1 EXCEPT !.main_images_ocr_text = JoinLines(Unique(main_texts, {}))]
         ELSE d1

product_data_json == output_folder \o <<"product_data.json">>

product_data_readable == output_folder \o <<"product_data_readable.txt">>

\* lines 1713-1800: the OCR texts are folded into the product, the JSON and the
\* readable report are written, and the save returns
WriteJson ==
    /\ pc = "save_ocr_detail"
    /\ index > Len(ImageDetails)
    /\ product_data' = [product_data EXCEPT
                           !.product_details = WithOcrTexts(@)]
    /\ json_data' = [kind |-> "json",
                     styles |-> [i \in 1..Len(Styles) |->
                                    JsonStyle(Styles[i], MapOf(manifest.main))],
                     product_details |-> JsonDetails(product_data'.product_details,
                                                     MapOf(manifest.detail))]
    /\ fs' = Put(Put(fs, Abspath(product_data_json), 1),
                 Abspath(product_data_readable), 1)
    /\ saved' = TRUE
    /\ index' = 0
    /\ pc' = "finally"
    /\ UNCHANGED <<saveFixed, ocrVars, manifest, seen_main, seen_detail, window,
                   attempts, fetch_log, main_texts, detail_ocr_results, exc>>

(***************************************************************************)
(* A save, entered from scrape_product_data (line 1362) with a product     *)
(* that scrape_single_product can return.                                  *)
(***************************************************************************)
\* style images: 'N/A' (line 745) or the src of an image; styles may share one
StyleImageLists == SeqsUpTo({UrlNA, UrlA}, MaxImages)

\* detail images: absolute URLs; the list may hold one twice (lines 1269-1284)
DetailImageLists == SeqsUpTo({UrlA, UrlB}, MaxImages)

StyleDict(u) == [style_name |-> "style", image_url |-> u, available |-> TRUE,
                 sizes |-> <<>>]

SavedPage == [skuSelectors |-> {2, 4}, nStyles |-> 1, sizePool |-> "samples",
              static |-> StaticSections]

SaveDicts ==
    { [kind |-> "dict",
       product_info |-> [title |-> "title"],
       styles |-> [i \in 1..Len(us) |-> StyleDict(us[i])],
       product_details |-> [image_details |-> ds, image_details_ocr |-> <<>>,
                            main_images_ocr_text |-> <<>>,
                            detail_images_ocr_text |-> <<>>]] :
      us \in StyleImageLists, ds \in DetailImageLists }

\* a file left at a download path by an earlier save into the same folder
StaleDisk ==
    [p \in { Abspath(LocalPath(main_image_dir, "main", 1, UrlA)) } |-> 0]

\* the output folder is new, or holds the files of an earlier save
SaveDisks == { EmptyMap, StaleDisk }

SaveEngines ==
    { [import |-> "ok", construct |-> "ok", predict |-> "ok", ocr |-> "ok", pil |-> "ok"],
      [import |-> "fail", construct |-> "ok", predict |-> "ok", ocr |-> "ok", pil |-> "ok"],
      [import |-> "ok", construct |-> "fail", predict |-> "ok", ocr |-> "ok", pil |-> "ok"],
      [import |-> "ok", construct |-> "ok", predict |-> "fail", ocr |-> "ok", pil |-> "ok"] }

\* the disks and engines a save is started with
SaveSetups ==
    { su \in [disk : SaveDisks, engine : SaveEngines] :
         su.disk = StaleDisk => su.engine.import = "fail" }

InitSave ==
    /\ pc = "save"
    /\ args = [driver |-> "none", close_driver |-> FALSE, save_to_file |-> TRUE]
    /\ page = SavedPage
    /\ driver_created = TRUE
    /\ driver_quit = 0
    /\ sku_container = 0
    /\ container_clicks = 0
    /\ style_elements = 0
    /\ index = 0
    /\ style_data = NoneVal
    /\ style_is_available = FALSE
    /\ initial_img_src = None
    /\ size_elements = <<>>
    /\ all_styles_data = <<>>
    /\ stale = FALSE
    /\ click_attempts = <<>>
    /\ container_found = TRUE
    /\ product_info = NoneVal
    /\ details_data = NoneVal
    /\ result_dict \in SaveDicts
    /\ product_data = DictToProductData(result_dict)
    /\ saved = FALSE
    /\ debug_files = {}
    /\ \E su \in SaveSetups :
         /\ fs = su.disk
         /\ engine = su.engine
    /\ _ocr_client = None
    /\ cache = EmptyMap
    /\ ocr_ret = NoneVal
    /\ last_path = <<>>
    /\ calls = EmptyMap
    /\ constructions = 0
    /\ tmp_files = 0
    /\ SaveNotEntered

NextSave ==
    \/ SaveBegin
    \/ DownloadMain
    \/ MainLoopEnd
    \/ DownloadDetail
    \/ WriteManifest
    \/ OcrMain
    \/ OcrMainEnd
    \/ OcrDetail
    \/ WriteJson
    \/ Finally

SpecSave == InitSave /\ [][NextSave]_vars

(***************************************************************************)
(* Claims about the save.                                                  *)
(***************************************************************************)
ManifestEntries == Range(manifest.main) \cup Range(manifest.detail)

ManifestUrls == { e.url : e \in ManifestEntries }

ListedUrls ==
    ({ Styles[i].image_url : i \in 1..Len(Styles) } \cup Range(ImageDetails)) \ { <<>> }

AttemptedUrls == { attempts[i].url : i \in 1..Len(attempts) }

Acquired(url) ==
    \E i \in 1..Len(attempts) :
        /\ attempts[i].url = url
        /\ attempts[i].tier \in {"tier1", "tier2"}
        /\ attempts[i].written

FailedBothTiers(i) == attempts[i].tier = "none"

SaveEnded == pc \in {"finally", "done", "raised"}

\* C9 (as stated): a URL has a manifest entry iff its acquisition succeeded in
\* tier 1 or tier 2 and its bytes were written; an image that failed both tiers is
\* not attempted again in that save; and after such a failure the remaining
\* images are still attempted, the manifest is dumped and the JSON is written.
C9_FailedImageIsOmittedAndSaveGoesOn ==
    /\ \A url \in ListedUrls \cup ManifestUrls : url \in ManifestUrls <=> Acquired(url)
    /\ \A i, j \in 1..Len(attempts) :
         (FailedBothTiers(i) /\ i # j) => attempts[j].url # attempts[i].url
    /\ (SaveEnded /\ \E i \in 1..Len(attempts) : FailedBothTiers(i)) =>
         /\ ListedUrls \subseteq AttemptedUrls
         /\ Exists(fs, manifest_path)
         /\ saved
         /\ Exists(fs, product_data_json)

\* C10: every entry of the manifest, main and detail, names a file that exists
\* under the output folder with a byte length greater than 0 -- from the moment
\* the entry is appended to the end of the save.
C10_ManifestFilesAreNonEmpty ==
    \A e \in ManifestEntries :
        /\ Exists(fs, Join(output_folder, e.file))
        /\ GetSize(fs, Join(output_folder, e.file)) > 0

\* a finished save whose manifest has a main and a detail entry, one image taken
\* through tier 2, and one image that gave no bytes in either tier
C10_Witness ==
    /\ pc = "done"
    /\ saved
    /\ manifest.main # <<>>
    /\ manifest.detail # <<>>
    /\ \E i \in 1..Len(attempts) : attempts[i].tier = "tier2" /\ attempts[i].written
    /\ \E i \in 1..Len(attempts) : FailedBothTiers(i)

(***************************************************************************)
(* Claims about an unavailable OCR engine.                                 *)
(***************************************************************************)
EngineUnavailable == engine.import = "fail" \/ engine.construct = "fail"

OcrFieldsEmpty(pd) ==
    /\ \A i \in 1..Len(pd.styles) : pd.styles[i].ocr = NoneVal
    /\ pd.product_details.image_details_ocr = <<>>
    /\ pd.product_details.main_images_ocr_text = <<>>
    /\ pd.product_details.detail_images_ocr_text = <<>>

InOcrStage == pc \in {"save_ocr_main", "save_ocr_detail"}

\* C11: when the OCR library cannot be imported or its constructor raises, every
\* recognize call returns None, no client is kept and the engine is never
\* invoked, no exception leaves the OCR stage, and the product that
\* scrape_product_data returns is a ProductData whose OCR fields are all empty.
C11_UnavailableEngineDegradesToNone ==
    EngineUnavailable =>
        /\ ocr_ret = NoneVal
        /\ _ocr_client = None
        /\ \A img \in DOMAIN calls : calls[img].core = 0
        /\ \A key \in DOMAIN cache : cache[key] = NoneVal
        /\ OcrFieldsEmpty(product_data)
        /\ (InOcrStage \/ saved) => ~exc
        /\ Returned => (IsRecord(product_data) /\ saved)

\* a returned save in which two downloaded images were handed to the recognizer
\* and the constructor raised each time
C11_Witness ==
    /\ Returned
    /\ engine.construct = "fail"
    /\ constructions >= 2
    /\ Cardinality(DOMAIN cache) >= 2
    /\ manifest.main # <<>>
    /\ manifest.detail # <<>>

\* some recognize call of this run found no client: its miss was cached without
\* a recognition run
FoundUnavailable ==
    \E img \in DOMAIN calls :
        /\ calls[img].core = 0
        /\ img \in DOMAIN cache
        /\ cache[img] = NoneVal

\* C12 (as stated): once a recognize call of the run has found the engine
\* unavailable, no later call of that run gets a client: the singleton stays
\* None, the engine is never invoked and every later call returns None.
C12_UnavailabilityIsSticky ==
    FoundUnavailable =>
        /\ _ocr_client = None
        /\ \A img \in DOMAIN calls : calls[img].core = 0
        /\ ocr_ret = NoneVal

(***************************************************************************)
(* Claims about the OCR stage of the save.                                 *)
(***************************************************************************)
\* the manifest entries whose local file is the image file img
EntriesOf(img) ==
    { e \in ManifestEntries : Abspath(Join(output_folder, e.file)) = img }

RecognizedFromDownload(img) ==
    /\ FileUsable(img)
    /\ \E e \in EntriesOf(img) : Acquired(e.url)

\* C13: in the save, every file handed to the recognizer is the local file of a
\* manifest entry whose download succeeded (bytes acquired and written, file
\* present and non-empty), and no step of the OCR stage downloads anything: the
\* download log, the browser window and the manifest are left as they were.
C13_RecognitionFollowsDownload ==
    /\ [](\A img \in DOMAIN calls : RecognizedFromDownload(img))
    /\ [](last_path # <<>> => RecognizedFromDownload(Abspath(last_path)))
    /\ [][InOcrStage =>
            (attempts' = attempts /\ window' = window /\ manifest' = manifest)]_vars

\* a returned save in which one image was recognized and another, whose
\* download gave no bytes, never reached the recognizer
C13_Witness ==
    /\ Returned
    /\ \E img \in DOMAIN calls : calls[img].core = 1
    /\ \E i \in 1..Len(attempts) :
         /\ FailedBothTiers(i)
         /\ attempts[i].url \notin ManifestUrls
    /\ Cardinality(DOMAIN calls) = Cardinality(ManifestEntries)

\* the non-empty texts recognized for the style main images, in style order
MainRecognizedTexts ==
    SelectSeq([i \in 1..Len(Styles) |->
                  IF Styles[i].ocr = NoneVal THEN <<>> ELSE Styles[i].ocr.full_text],
              NonEmptyText)

\* the non-empty texts recognized for the detail images, in image order
DetailRecognizedTexts ==
    SelectSeq([i \in 1..Len(product_data.product_details.image_details_ocr) |->
                  product_data.product_details.image_details_ocr[i].full_text],
              NonEmptyText)

RECURSIVE FirstOccurrences(_)
\* the members of a list, each once, in order of first occurrence
FirstOccurrences(q) ==
    IF q = <<>> THEN <<>>
    ELSE LET front == FirstOccurrences(SubSeq(q, 1, Len(q) - 1))
         IN IF q[Len(q)] \in Range(front) THEN front ELSE Append(front, q[Len(q)])

RECURSIVE Concatenated(_)
Concatenated(q) == IF q = <<>> THEN <<>> ELSE Head(q) \o Concatenated(Tail(q))

\* C14 (as stated): when the save has returned, main_images_ocr_text and
\* detail_images_ocr_text each hold every distinct non-empty recognized text of
\* their section exactly once, in order of first occurrence.
C14_BothConcatenationsAreDeduplicated ==
    saved =>
        /\ product_data.product_details.main_images_ocr_text
             = Concatenated(FirstOccurrences(MainRecognizedTexts))
        /\ product_data.product_details.detail_images_ocr_text
             = Concatenated(FirstOccurrences(DetailRecognizedTexts))

(***************************************************************************)
(* Claims about style variants that share one image URL.                   *)
(***************************************************************************)
SharingPairs ==
    { pr \in (1..Len(Styles)) \X (1..Len(Styles)) :
        /\ pr[1] < pr[2]
        /\ Styles[pr[1]].image_url = Styles[pr[2]].image_url
        /\ Styles[pr[1]].image_url # <<>> }

DownloadsOf(url) == { i \in 1..Len(attempts) : attempts[i].url = url }

MainDownloadsOf(url) == { i \in DownloadsOf(url) : attempts[i].section = "main" }

\* the local files the manifest holds for a URL, in either section
FilesOf(url) ==
    { Abspath(Join(output_folder, e.file)) : e \in { x \in ManifestEntries : x.url = url } }

MainFilesOf(url) ==
    { Abspath(Join(output_folder, e.file)) : e \in { x \in Range(manifest.main) : x.url = url } }

RECURSIVE EngineCallsOver(_)
EngineCallsOver(files) ==
    IF files = {} THEN 0
    ELSE LET f == CHOOSE x \in files : TRUE
         IN (IF f \in DOMAIN calls THEN EngineCalls(f) ELSE 0)
              + EngineCallsOver(files \ {f})

\* C15 (as stated): when two style variants reference the same image URL, then by
\* the end of the save the image has been downloaded once, the OCR engine has
\* been invoked at most once for it, and the two variants carry equal OCR.
C15_SharedImageIsFetchedAndRecognizedOnce ==
    saved =>
      \A pr \in SharingPairs :
        LET url == Styles[pr[1]].image_url IN
          /\ Cardinality(DownloadsOf(url)) = 1
          /\ EngineCallsOver(FilesOf(url)) <= 1
          /\ Styles[pr[1]].ocr = Styles[pr[2]].ocr

\* C15 (amended): when two style variants reference the same image URL, the
\* main-image loop downloads it at most once (exactly once by the end of the
\* save), the manifest holds at most one main file for it, that file gets at
\* most one recognition run with at most one predict() and one ocr() call, and
\* at the end of the save both variants carry equal OCR: the same document, or
\* none for both.
C15_SharedImageOncePerMainSection ==
    \A pr \in SharingPairs :
      LET url == Styles[pr[1]].image_url IN
        /\ Cardinality(MainDownloadsOf(url)) <= 1
        /\ Cardinality(MainFilesOf(url)) <= 1
        /\ \A f \in MainFilesOf(url) \cap DOMAIN calls :
             /\ calls[f].core <= 1
             /\ calls[f].predict <= 1
             /\ calls[f].ocr <= 1
        /\ saved =>
             /\ Cardinality(MainDownloadsOf(url)) = 1
             /\ Styles[pr[1]].ocr = Styles[pr[2]].ocr

\* a finished save with two variants on one URL: one main file, handed to the
\* recognizer twice and recognized once, the same non-empty text on both
C15_Witness ==
    /\ saved
    /\ \E pr \in SharingPairs :
         /\ Styles[pr[1]].ocr # NoneVal
         /\ Styles[pr[1]].ocr.full_text # <<>>
         /\ Styles[pr[2]].ocr = Styles[pr[1]].ocr
         /\ \E f \in MainFilesOf(Styles[pr[1]].image_url) :
              /\ f \in DOMAIN calls
              /\ calls[f].recognize = 2
              /\ calls[f].core = 1

(***************************************************************************)
(* Claims about the driver.                                                *)
(***************************************************************************)
Exited == pc \in {"done", "raised"}

\* C16 (as stated): on every exit of scrape_product_data -- a record returned,
\* None returned, an exception raised -- the driver has been quit exactly once
\* if the function created it or close_driver is true, and not at all otherwise.
C16_DriverQuitIffOwnedOnEveryExit ==
    Exited =>
        driver_quit = (IF driver_created \/ args.close_driver THEN 1 ELSE 0)

(***************************************************************************)
(* Claims about what the save changes in the product.                      *)
(***************************************************************************)
\* a ProductData with its OCR fields put back to their defaults
WithoutOcr(pd) ==
    [pd EXCEPT
       !.styles = [i \in 1..Len(pd.styles) |-> [pd.styles[i] EXCEPT !.ocr = NoneVal]],
       !.product_details = [@ EXCEPT !.image_details_ocr = <<>>,
                                     !.main_images_ocr_text = <<>>,
                                     !.detail_images_ocr_text = <<>>]]

\* C17: throughout the save, the ProductData differs from the one assembled by
\* _dict_to_product_data only in styles[i].ocr, image_details_ocr,
\* main_images_ocr_text and detail_images_ocr_text; the style and detail image
\* URLs stay the source URLs (the local paths go to the JSON copy only).
C17_SaveOnlyBackfillsOcr ==
    WithoutOcr(product_data) = WithoutOcr(DictToProductData(result_dict))

\* a finished save that filled OCR fields and relocated a style image and a
\* detail image in the JSON copy
C17_Witness ==
    /\ saved
    /\ \E i \in 1..Len(Styles) :
         /\ Styles[i].ocr # NoneVal
         /\ json_data.styles[i].image_url # Styles[i].image_url
    /\ product_data.product_details.image_details_ocr # <<>>
    /\ json_data.product_details.image_details
         # product_data.product_details.image_details
    /\ product_data # DictToProductData(result_dict)

(***************************************************************************)
(* Claims about the names of the downloaded files.                         *)
(***************************************************************************)
\* the file name of a manifest entry: prefix, index, hash, extension
FileName(e) == SubSeq(e.file, Len(e.file) - 3, Len(e.file))

\* position of the first occurrence of x in the list q
FirstPosition(q, x) ==
    CHOOSE i \in 1..Len(q) : q[i] = x /\ \A j \in 1..(i - 1) : q[j] # x

StyleUrls == [i \in 1..Len(Styles) |-> Styles[i].image_url]

\* C18 (as stated): a source URL is mapped to one local file name wherever it
\* appears: any two manifest entries of the same URL carry the same file name.
C18_SameUrlSameFileName ==
    \A e1, e2 \in ManifestEntries : e1.url = e2.url => FileName(e1) = FileName(e2)

\* C18 (amended): the file name of a manifest entry is a fixed function of the
\* section, of the position at which the URL first appears in that section's
\* list, and of the URL (its hash, and its extension or ".jpg" when it has
\* none): nothing else of the run enters it, and within one section a URL has one
\* entry.
C18_NameIsFunctionOfSectionIndexUrl ==
    /\ \A e \in Range(manifest.main) :
         e.file = <<"images", "main", "main", Str(FirstPosition(StyleUrls, e.url)),
                    ShortHash(e.url), IF e.url[2] = "" THEN ".jpg" ELSE e.url[2]>>
    /\ \A e \in Range(manifest.detail) :
         e.file = <<"images", "detail", "detail",
                    Str(FirstPosition(ImageDetails, e.url)),
                    ShortHash(e.url), IF e.url[2] = "" THEN ".jpg" ELSE e.url[2]>>
    /\ \A sec \in {"main", "detail"} :
         \A i, j \in 1..Len(manifest[sec]) :
            manifest[sec][i].url = manifest[sec][j].url => i = j

\* a finished save in which one URL was stored under two names: as the second
\* style image and as the first detail image
C18_Witness ==
    /\ saved
    /\ \E e1 \in Range(manifest.main), e2 \in Range(manifest.detail) :
         /\ e1.url = e2.url
         /\ FileName(e1) # FileName(e2)
         /\ FileName(e1)[2] = "2"
         /\ FileName(e2)[2] = "1"

(***************************************************************************)
(* Claims about element handles and clicks.                                *)
(***************************************************************************)
\* C19: when the sizes of a style item have been read (the item is about to be
\* appended), the container handle the read went through was obtained after
\* every click script executed so far, this item's included, and sizes are
\* recorded only through a container that the re-location found.
C19_SizesReadThroughFreshContainer ==
    pc = "item_append" =>
        /\ container_clicks = Len(click_attempts)
        /\ style_data.sizes # <<>> => sku_container # 0

\* the second item has been clicked after the first, and its sizes were read
C19_Witness ==
    /\ pc = "item_append"
    /\ index = 2
    /\ click_attempts = <<1, 2>>
    /\ container_clicks = 2
    /\ style_data.sizes # <<>>

\* C20 (as stated): no style item handle taken before a click is dereferenced
\* after it -- an item's attributes are read only while no click script has been
\* executed since the items were looked up -- and a page with a container and
\* style items always yields a record, whatever the clicks re-render.
C20_NoPreClickHandleUsedAfterClick ==
    /\ pc \in {"item_avail", "item_name"} => click_attempts = <<>>
    /\ (Returned /\ container_found /\ page.nStyles > 0) => product_data # NoneVal

(***************************************************************************)
(* Claims about the order of the stages, the recorded image, termination   *)
(* and availability.                                                       *)
(***************************************************************************)
ItemSteps == {"item_avail", "item_name", "item_click", "item_image", "item_sizes",
              "item_append"}

\* C22 (as stated): the static fields are extracted before the variant state
\* machine runs -- while a style item is in process product_info is already
\* there -- and they are read while no click script has been executed.
C22_StaticFieldsBeforeVariants ==
    /\ pc \in ItemSteps => product_info # NoneVal
    /\ pc = "static_title" => click_attempts = <<>>

\* C23: between the read of the thumbnail and the append of the item, the image
\* URL of an item that has a thumbnail is replaced only in the image step, only
\* for an available item whose click script was executed and whose main image
\* was captured before the click, and only by a main-image src that differs
\* from the captured one; until the image step the URL is the thumbnail or
\* "N/A", an unavailable item keeps its URL, and the item is appended with the
\* URL it then has.
C23_ImageDiffersFromThumbnailOnlyAfterChange ==
    /\ [](pc \in {"item_click", "item_image"} => style_data.image_url \in {"thumb", NA})
    /\ [][(pc \in {"item_click", "item_image", "item_sizes"} /\ pc' # pc) =>
            /\ (style_data.image_url = "thumb" /\ style_data'.image_url # "thumb") =>
                  /\ pc = "item_image"
                  /\ style_is_available
                  /\ index \in Range(click_attempts)
                  /\ initial_img_src \notin {None, "error"}
                  /\ style_data'.image_url \in CurrentImages \ {None, "error"}
                  /\ style_data'.image_url # initial_img_src
            /\ ~style_is_available => style_data'.image_url = style_data.image_url]_vars
    /\ [][(pc = "item_append" /\ pc' # pc) =>
            all_styles_data'[Len(all_styles_data')].image_url = style_data.image_url]_vars

\* an available item with a thumbnail was clicked, the main image was captured
\* and the image step is over with the thumbnail kept
C23_Witness ==
    /\ pc = "item_sizes"
    /\ style_is_available
    /\ index \in Range(click_attempts)
    /\ initial_img_src = "main_old"
    /\ style_data.image_url = "thumb"

\* every step of the scrape is a piece of code that runs to its end once the
\* browser calls it makes have returned
SpecLive == Spec /\ WF_vars(Next)

\* C26: the scrape ends; it ends normally in a ProductData or None; the item
\* that enters processing is the one right after the items already recorded,
\* so that each style item is processed once, in order; and a returned record
\* holds one variant per style item found.
C26_ScrapeTerminates ==
    /\ <>(pc \in {"done", "raised"})
    /\ [](pc = "done" => (product_data = NoneVal \/ IsRecord(product_data)))
    /\ [](pc = "item_avail" => index = Len(all_styles_data) + 1)
    /\ []((pc = "scraped" /\ result_dict # NoneVal /\ page.nStyles > 0) =>
             Len(result_dict.styles) = page.nStyles)

\* a page with two style items, both clicked, ended in a record
C26_Witness ==
    /\ pc = "done"
    /\ IsRecord(product_data)
    /\ Len(product_data.styles) = 2
    /\ click_attempts = <<1, 2>>

\* C27 (as stated): available is true only for the explicit marker "false" of
\* the data-disabled attribute, for a style item and for a size item alike; an
\* absent or empty attribute (read as "") yields available = false.
C27_AvailableOnlyOnExplicitMarker ==
    /\ \A attr \in DisabledAttrs : IsAvailable(attr) <=> attr = "false"
    /\ pc = "item_append" =>
          \A i \in 1..Len(style_data.sizes) :
              style_data.sizes[i].available =>
                  size_elements[FirstIndexOf(size_elements,
                                             style_data.sizes[i].name)].disabled = "false"

(***************************************************************************)
(* Claims about the engine instance and the temporary files.               *)
(***************************************************************************)
\* C24: no constructor call is made before the first recognize call, and once
\* a construction has succeeded (the client is held in _ocr_client) every later
\* call leaves the client in place and makes no constructor call.
C24_EngineConstructedLazilyAndOnce ==
    /\ [](ocr_calls_made = 0 => (constructions = 0 /\ _ocr_client = None))
    /\ [][_ocr_client # None =>
            (_ocr_client' = _ocr_client /\ constructions' = constructions)]_vars

\* two image files were recognized by one client built by the only constructor
\* call
C24_Witness ==
    /\ _ocr_client # None
    /\ constructions = 1
    /\ \E a, b \in DOMAIN calls : a # b /\ calls[a].core = 1 /\ calls[b].core = 1

\* C25 (as stated): when a recognize call has returned, no temporary file that
\* a recognize call created is left on disk.
C25_NoTemporaryFileOutlivesTheCall ==
    tmp_files = 0

(***************************************************************************)
(* The detail-image list of scrape_product_details, lines 1247-1284.  A    *)
(* URL string is the sequence of its parts, so that startswith, "in" and   *)
(* the concatenations of lines 1279-1282 are computed on it.               *)
(***************************************************************************)
MaxImgs == 3

NoAttr == <<>>

AbsoluteA == <<"https:", "//", "h", "/a.jpg">>

ProtocolRelativeA == <<"//", "h", "/a.jpg">>

RootRelativeB == <<"/b.jpg">>

Placeholder == <<"//", "g.alicdn.com", "/s.gif">>

\* the img elements the five selectors of 1248-1254 may collect; one element can
\* be collected by several selectors (1257-1263)
ImgElements ==
    { [data_src |-> ProtocolRelativeA, src |-> Placeholder],
      [data_src |-> NoAttr, src |-> AbsoluteA],
      [data_src |-> NoAttr, src |-> ProtocolRelativeA],
      [data_src |-> NoAttr, src |-> RootRelativeB],
      [data_src |-> NoAttr, src |-> Placeholder],
      [data_src |-> NoAttr, src |-> NoAttr] }

\* a or b
Or(a, b) == IF a # <<>> THEN a ELSE b

\* 'g.alicdn.com/s.gif' in img_src
IsPlaceholder(u) ==
    \E i \in 1..(Len(u) - 1) : u[i] = "g.alicdn.com" /\ u[i + 1] = "/s.gif"

StartsWithSlash(u) == u # <<>> /\ Head(u) \in {"//", "/a.jpg", "/b.jpg", "/s.gif"}

\* lines 1279-1282
Normalized(u) ==
    IF u # <<>> /\ Head(u) = "//" THEN <<"https:">> \o u
    ELSE IF StartsWithSlash(u) THEN <<"https:", "//", "img.alicdn.com">> \o u
    ELSE u

\* lines 1267-1284: one img element against the list built so far
AddImage(image_details, img) ==
    LET img_src == Or(img.data_src, img.src) IN
    IF img_src = <<>> \/ img_src \in Range(image_details) THEN image_details
    ELSE LET picked == IF IsPlaceholder(img_src) THEN img.data_src ELSE img_src IN
         IF picked = <<>> THEN image_details
         ELSE Append(image_details, Normalized(picked))

InitDetailImages ==
    /\ pc = "detail_images"
    /\ args = NoneVal
    /\ page \in [ imgs : SeqsUpTo(ImgElements, MaxImgs) ]
    /\ driver_created = FALSE
    /\ driver_quit = 0
    /\ sku_container = 0
    /\ container_clicks = 0
    /\ style_elements = 0
    /\ index = 1
    /\ style_data = NoneVal
    /\ style_is_available = FALSE
    /\ initial_img_src = None
    /\ size_elements = <<>>
    /\ all_styles_data = <<>>
    /\ stale = FALSE
    /\ click_attempts = <<>>
    /\ container_found = FALSE
    /\ product_info = NoneVal
    /\ details_data = [image_details |-> <<>>]
    /\ result_dict = Unset
    /\ product_data = Unset
    /\ saved = FALSE
    /\ debug_files = {}
    /\ fs = EmptyMap
    /\ _ocr_client = None
    /\ engine = [import |-> "ok", construct |-> "ok", predict |-> "ok", ocr |-> "ok",
                 pil |-> "ok"]
    /\ cache = EmptyMap
    /\ ocr_ret = NoneVal
    /\ last_path = <<>>
    /\ calls = EmptyMap
    /\ constructions = 0
    /\ tmp_files = 0
    /\ SaveNotEntered

\* one iteration of "for img in all_imgs", lines 1266-1284
DetailImage ==
    /\ pc = "detail_images"
    /\ index <= Len(page.imgs)
    /\ details_data' = [details_data EXCEPT
                          !.image_details = AddImage(@, page.imgs[index])]
    /\ index' = index + 1
    /\ UNCHANGED <<pc, args, page, driver_created, driver_quit, sku_container,
                   container_clicks, style_elements, style_data, style_is_available,
                   initial_img_src, size_elements, all_styles_data, stale,
                   click_attempts, container_found, product_info, result_dict,
                   product_data, saved, debug_files, fs, ocrVars, saveVars>>

NextDetailImages == DetailImage

SpecDetailImages == InitDetailImages /\ [][NextDetailImages]_vars

\* C29 (as stated): the list of detail image URLs holds no URL twice.
C29_DetailImageListHasNoDuplicate ==
    pc = "detail_images" =>
        \A i, j \in 1..Len(details_data.image_details) :
            i # j => details_data.image_details[i] # details_data.image_details[j]

(***************************************************************************)
(* A session of image acquisitions on one driver: calls of                 *)
(* _fetch_image_bytes, of _dom_fetch_image_new_tab (as test_tm_image_fetch *)
(* makes them) and of _download_image, in any order.                       *)
(***************************************************************************)
MaxFetches == 3

FetchUrls == {UrlA, UrlB}

fetches_made == Len(fetch_log) + Len(attempts)

InitFetch ==
    /\ pc = "fetch_session"
    /\ args = NoneVal
    /\ page = NoneVal
    /\ driver_created = FALSE
    /\ driver_quit = 0
    /\ sku_container = 0
    /\ container_clicks = 0
    /\ style_elements = 0
    /\ index = 0
    /\ style_data = NoneVal
    /\ style_is_available = FALSE
    /\ initial_img_src = None
    /\ size_elements = <<>>
    /\ all_styles_data = <<>>
    /\ stale = FALSE
    /\ click_attempts = <<>>
    /\ container_found = FALSE
    /\ product_info = NoneVal
    /\ details_data = NoneVal
    /\ result_dict = Unset
    /\ product_data = Unset
    /\ saved = FALSE
    /\ debug_files = {}
    /\ fs \in SaveDisks
    /\ _ocr_client = None
    /\ engine = [import |-> "ok", construct |-> "ok", predict |-> "ok", ocr |-> "ok",
                 pil |-> "ok"]
    /\ cache = EmptyMap
    /\ ocr_ret = NoneVal
    /\ last_path = <<>>
    /\ calls = EmptyMap
    /\ constructions = 0
    /\ tmp_files = 0
    /\ SaveNotEntered

fetchFixed == <<scrapeVars, fs, ocrVars, manifest, seen_main, seen_detail, attempts,
                main_texts, detail_ocr_results, json_data>>

\* the window the driver is on after the finally clause of 1566-1575: when the
\* call raised before the new tab became the current window (1504-1506),
\* driver.close() of line 1568 closes the window the call was made from and the
\* switch back to it (1572) fails silently
WindowAfter(t1) == IF t1.kind = "no_tab" THEN "closed" ELSE "open"

\* one call of _fetch_image_bytes, lines 1578-1584
FetchCall ==
    /\ pc = "fetch_session"
    /\ fetches_made < MaxFetches
    /\ LET url == UrlA IN
         IF window = "closed"
           THEN \* line 1502 raises out of the call
                /\ fetch_log' = Append(fetch_log,
                       [fn |-> "fetch_image_bytes", url |-> url, raised |-> TRUE,
                        tried |-> <<"tier1">>, content |-> NoBytes, window |-> window])
                /\ exc' = TRUE
                /\ UNCHANGED window
           ELSE \E t1 \in Tier1Answers, t2 \in Tier2Answers :
                  /\ t1.kind = "no_tab" => t2.kind = "raised"
                  /\ window' = WindowAfter(t1)
                  /\ fetch_log' = Append(fetch_log,
                         [fn |-> "fetch_image_bytes", url |-> url, raised |-> FALSE,
                          t1 |-> t1, t2 |-> t2, tried |-> Fetched(t1, t2).tried,
                          content |-> Fetched(t1, t2).content, window |-> window'])
                  /\ exc' = FALSE
    /\ UNCHANGED fetchFixed

\* one call of _dom_fetch_image_new_tab, lines 1495-1575
NewTabCall ==
    /\ pc = "fetch_session"
    /\ fetches_made < MaxFetches
    /\ LET url == UrlA IN
         IF window = "closed"
           THEN /\ fetch_log' = Append(fetch_log,
                       [fn |-> "new_tab", url |-> url, raised |-> TRUE,
                        content |-> NoBytes, window |-> window])
                /\ exc' = TRUE
                /\ UNCHANGED window
           ELSE \E t1 \in Tier1Answers :
                  /\ window' = WindowAfter(t1)
                  /\ fetch_log' = Append(fetch_log,
                         [fn |-> "new_tab", url |-> url, raised |-> FALSE, t1 |-> t1,
                          content |-> Bytes(t1), window |-> window'])
                  /\ exc' = FALSE
    /\ UNCHANGED fetchFixed

\* one call of _download_image, lines 1587-1625
DownloadCall ==
    /\ pc = "fetch_session"
    /\ fetches_made < MaxFetches
    /\ \E url \in FetchUrls : DownloadImage("main", url, main_image_dir, "main", 1)
    /\ UNCHANGED <<scrapeVars, ocrVars, seen_main, seen_detail, fetch_log, main_texts,
                   detail_ocr_results, json_data>>

NextFetch ==
    \/ FetchCall
    \/ NewTabCall
    \/ DownloadCall

SpecFetch == InitFetch /\ [][NextFetch]_vars

(***************************************************************************)
(* Claims about the acquisition tiers, the windows and the files.          *)
(***************************************************************************)
Acquisitions == { i \in 1..Len(fetch_log) :
                     fetch_log[i].fn = "fetch_image_bytes" /\ ~fetch_log[i].raised }

\* C21: in every call of _fetch_image_bytes that returns, the new-tab fetch is
\* called first and once, the in-page fetch is called, once and after it, exactly
\* when the new-tab fetch gave no bytes, and the result is the bytes of the
\* new-tab fetch when it gave some and otherwise what the in-page fetch gave; a
\* call that raises does so in the new-tab fetch, before any in-page fetch.
C21_TiersInOrderStoppingAtFirstSuccess ==
    \A i \in 1..Len(fetch_log) :
        LET e == fetch_log[i] IN
        e.fn = "fetch_image_bytes" =>
            /\ e.tried \in { <<"tier1">>, <<"tier1", "tier2">> }
            /\ e.raised => (e.tried = <<"tier1">> /\ e.content = NoBytes)
            /\ ~e.raised =>
                  /\ (e.tried = <<"tier1", "tier2">>) <=> (Bytes(e.t1) = NoBytes)
                  /\ e.content = IF Bytes(e.t1) # NoBytes THEN Bytes(e.t1)
                                 ELSE Bytes(e.t2)

\* one call was served by the new-tab fetch alone although the in-page fetch
\* would have answered, another by the in-page fetch after the new-tab fetch
\* gave nothing
C21_Witness ==
    \E i, j \in Acquisitions :
        /\ fetch_log[i].tried = <<"tier1">>
        /\ fetch_log[i].content = Bytes(fetch_log[i].t1)
        /\ Bytes(fetch_log[i].t2) # NoBytes
        /\ fetch_log[j].tried = <<"tier1", "tier2">>
        /\ fetch_log[j].content = Bytes(fetch_log[j].t2)
        /\ fetch_log[j].content # NoBytes

\* C28 (as stated): after a call of _dom_fetch_image_new_tab made on an open
\* window, whatever the step it failed at, the window the call was made from is
\* open and is the driver's current window.
C28_OriginalWindowSurvivesNewTabFetch ==
    \A i \in 1..Len(fetch_log) :
        (fetch_log[i].fn = "new_tab" /\ ~fetch_log[i].raised) =>
            fetch_log[i].window = "open"

TargetedPaths == { attempts[i].path : i \in 1..Len(attempts) }

LastAttemptOn(path) ==
    CHOOSE i \in 1..Len(attempts) :
        /\ attempts[i].path = path
        /\ \A j \in (i + 1)..Len(attempts) : attempts[j].path # path

\* C30 (as stated): after any sequence of _download_image calls, a file exists
\* at a targeted local path if and only if the most recent attempt targeting
\* that path succeeded.
C30_FileExistsIffLastAttemptSucceeded ==
    \A path \in TargetedPaths :
        Exists(fs, path) <=> attempts[LastAttemptOn(path)].written

====
